---- MODULE Spec2Model ----
(***************************************************************************)
(* A model of src/autofill_description.py: the pull-request description    *)
(* generator.  main() is a linear pipeline of outbound calls (pull-request *)
(* fetch, changed-files pages, issue-tracker fetch, completion request and *)
(* its retry, write-back); every call is one action whose outcome is       *)
(* chosen by the environment.  Python strings are sequences of             *)
(* one-character strings, and the string operations of the source (split,  *)
(* lower, startswith, in, strip, upper, slicing) are computed on them.     *)
(***************************************************************************)
EXTENDS Integers, Sequences, FiniteSets, TLC

\* ------------------------------------------------------------------------
\* Bounds of the model

\* Files the hosting API may hold beyond the 300 that 10 pages of 30 can hold.
MaxExtraFiles == 31
\* Length of the patch of the one large file of the "large" file listing.
LargePatchLen == 9000
\* How many fragments a generated text of StripSpec is put together from.
MaxFragments == 3

\* ------------------------------------------------------------------------
\* Python string operations

Min(a, b) == IF a <= b THEN a ELSE b

LowerChars ==
    << "a", "b", "c", "d", "e", "f", "g", "h", "i", "j", "k", "l", "m",
       "n", "o", "p", "q", "r", "s", "t", "u", "v", "w", "x", "y", "z" >>

UpperChars ==
    << "A", "B", "C", "D", "E", "F", "G", "H", "I", "J", "K", "L", "M",
       "N", "O", "P", "Q", "R", "S", "T", "U", "V", "W", "X", "Y", "Z" >>

\* str.lower() and str.upper() of one character
lower_char(c) ==
    IF \E i \in 1..Len(UpperChars) : UpperChars[i] = c
    THEN LowerChars[CHOOSE i \in 1..Len(UpperChars) : UpperChars[i] = c]
    ELSE c

upper_char(c) ==
    IF \E i \in 1..Len(LowerChars) : LowerChars[i] = c
    THEN UpperChars[CHOOSE i \in 1..Len(LowerChars) : LowerChars[i] = c]
    ELSE c

\* str.lower()
lower(s) == [i \in 1..Len(s) |-> lower_char(s[i])]

\* s[n:] and s[:n]
drop(s, n) == SubSeq(s, n + 1, Len(s))
take(s, n) == SubSeq(s, 1, Min(n, Len(s)))

\* s.startswith(p)
startswith(s, p) == Len(s) >= Len(p) /\ SubSeq(s, 1, Len(p)) = p

\* sub in s
contains(s, sub) ==
    \E i \in 0..(Len(s) - Len(sub)) : SubSeq(s, i + 1, i + Len(sub)) = sub

\* the characters str.strip() removes
Whitespace == {" ", "\n", "\t", "\r"}

\* s.strip()
strip(s) ==
    LET keep == {i \in 1..Len(s) : s[i] \notin Whitespace}
    IN  IF keep = {} THEN << >>
        ELSE LET first == CHOOSE i \in keep : \A j \in keep : i <= j
                 last  == CHOOSE i \in keep : \A j \in keep : j <= i
             IN  SubSeq(s, first, last)

\* s.split(sep) for a one-character separator: the pieces between separators
split(s, sep) ==
    LET cuts == {i \in 1..Len(s) : s[i] = sep}
        bounds == {0} \cup cuts \cup {Len(s) + 1}
        nxt(b) == CHOOSE c \in bounds : c > b /\ \A d \in bounds : d > b => c <= d
        start[k \in 1..(Cardinality(cuts) + 1)] ==
            IF k = 1 THEN 0 ELSE nxt(start[k - 1])
    IN  [k \in 1..(Cardinality(cuts) + 1) |-> SubSeq(s, start[k] + 1, nxt(start[k]) - 1)]

\* the values of a list
Range(f) == {f[i] : i \in 1..Len(f)}

\* ------------------------------------------------------------------------
\* Literals of the source

\* the prompt template of _build_prompt up to {task_description}
prompt_head ==
    << "\n", "W", "r", "i", "t", "e", " ", "a", " ", "c", "o", "n", "c", "i", "s", "e", " ",
       "p", "u", "l", "l", " ", "r", "e", "q", "u", "e", "s", "t", " ", "d", "e", "s", "c",
       "r", "i", "p", "t", "i", "o", "n", " ", "f", "o", "c", "u", "s", "i", "n", "g", " ",
       "o", "n", " ", "t", "h", "e", " ", "m", "o", "t", "i", "v", "a", "t", "i", "o", "n",
       " ", "b", "e", "h", "i", "n", "d", " ", "t", "h", "e", " ", "c", "h", "a", "n", "g",
       "e", " ", "s", "o", " ", "t", "h", "a", "t", " ", "i", "t", " ", "i", "s", " ", "h",
       "e", "l", "p", "f", "u", "l", " ", "f", "o", "r", " ", "t", "h", "e", " ", "r", "e",
       "v", "i", "e", "w", "e", "r", " ", "t", "o", " ", "u", "n", "d", "e", "r", "s", "t",
       "a", "n", "d", ".", "\n", "G", "o", " ", "s", "t", "r", "a", "i", "g", "h", "t", " ",
       "t", "o", " ", "t", "h", "e", " ", "p", "o", "i", "n", "t", ",", " ", "a", "v", "o",
       "i", "d", " ", "v", "e", "r", "b", "o", "s", "i", "t", "y", ".", "\n", "P", "u", "l",
       "l", " ", "r", "e", "q", "u", "e", "s", "t", " ", "d", "e", "s", "c", "r", "i", "p",
       "t", "i", "o", "n", " ", "s", "h", "o", "u", "l", "d", " ", "c", "o", "n", "s", "i",
       "s", "t", " ", "o", "f", " ", "t", "h", "r", "e", "e", " ", "s", "e", "c", "t", "i",
       "o", "n", "s", ":", "\n", "#", "#", " ", "D", "e", "s", "c", "r", "i", "p", "t", "i",
       "o", "n", "\n", "T", "h", "i", "s", " ", "i", "s", " ", "t", "h", "e", " ", "c", "o",
       "n", "c", "i", "s", "e", " ", "h", "i", "g", "h", " ", "l", "e", "v", "e", "l", " ",
       "d", "e", "s", "c", "r", "i", "p", "t", "i", "o", "n", " ", "i", "n", " ", "o", "n",
       "e", " ", "s", "h", "o", "r", "t", " ", "s", "e", "n", "t", "e", "n", "c", "e", " ",
       "o", "f", " ", "t", "h", "e", " ", "P", "R", ".", " ", "(", "w", "h", "a", "t", ")",
       ".", "\n", "\n", "#", "#", " ", "M", "o", "t", "i", "v", "a", "t", "i", "o", "n", " ",
       "a", "n", "d", " ", "C", "o", "n", "t", "e", "x", "t", "\n", "W", "h", "y", " ", "i",
       "s", " ", "t", "h", "i", "s", " ", "c", "h", "a", "n", "g", "e", " ", "r", "e", "q",
       "u", "i", "r", "e", "d", "?", " ", "E", "x", "p", "l", "a", "i", "n", " ", "i", "n",
       " ", "o", "n", "e", " ", "s", "h", "o", "r", "t", " ", "s", "e", "n", "t", "e", "n",
       "c", "e", ".", " ", "W", "h", "a", "t", " ", "p", "r", "o", "b", "l", "e", "m", " ",
       "d", "o", "e", "s", " ", "i", "t", " ", "s", "o", "l", "v", "e", "?", " ", "(", "w",
       "h", "y", ")", "\n", "\n", "#", "#", " ", "C", "h", "a", "n", "g", "e", "s", "\n", "G",
       "o", " ", "t", "h", "r", "o", "u", "g", "h", " ", "s", "t", "e", "p", " ", "b", "y",
       " ", "s", "t", "e", "p", ".", " ", "W", "h", "a", "t", " ", "t", "y", "p", "e", "s",
       " ", "o", "f", " ", "c", "h", "a", "n", "g", "e", "s", " ", "d", "o", "e", "s", " ",
       "y", "o", "u", "r", " ", "c", "o", "d", "e", " ", "i", "n", "t", "r", "o", "d", "u",
       "c", "e", "?", " ", "K", "e", "e", "p", " ", "i", "t", " ", "s", "h", "o", "r", "t",
       " ", "f", "o", "c", "u", "s", "i", "n", "g", " ", "o", "n", "l", "y", " ", "o", "n",
       " ", "m", "a", "x", "i", "m", "u", "m", " ", "3", " ", "m", "o", "s", "t", " ", "i",
       "m", "p", "o", "r", "t", "a", "n", "t", " ", "c", "h", "a", "n", "g", "e", "s", ".",
       " ", "(", "h", "o", "w", ")", "\n", "\n", "B", "e", "l", "o", "w", " ", "i", "s", " ",
       "a", "d", "d", "i", "t", "i", "o", "n", "a", "l", " ", "c", "o", "n", "t", "e", "x",
       "t", " ", "r", "e", "g", "a", "r", "d", "i", "n", "g", " ", "t", "a", "s", "k", " ",
       "f", "r", "o", "m", " ", "t", "h", "e", " ", "J", "i", "r", "a", " ", "t", "i", "c",
       "k", "e", "t", ".", " ", "U", "s", "e", " ", "t", "h", "e", "m", " ", "t", "o", " ",
       "w", "r", "i", "t", "e", " ", "b", "e", "t", "t", "e", "r", " ", "d", "e", "s", "c",
       "r", "i", "p", "t", "i", "o", "n", " ", "a", "n", "d", " ", "m", "o", "t", "i", "v",
       "a", "t", "i", "o", "n", ":", "\n" >>

\* the template between {task_description} and {pull_request_title}
prompt_mid ==
    << "\n", "\n", "T", "h", "e", " ", "t", "i", "t", "l", "e", " ", "o", "f", " ", "t", "h",
       "e", " ", "p", "u", "l", "l", " ", "r", "e", "q", "u", "e", "s", "t", " ", "i", "s",
       " ", "\"" >>

\* the template after {pull_request_title}
prompt_tail ==
    << "\"", " ", "a", "n", "d", " ", "t", "h", "e", " ", "f", "o", "l", "l", "o", "w", "i",
       "n", "g", " ", "c", "h", "a", "n", "g", "e", "s", " ", "t", "o", "o", "k", " ", "p",
       "l", "a", "c", "e", ":", "\n" >>

how_has_this_been_tested_section ==
    << "#", "#", " ", "H", "o", "w", " ", "H", "a", "s", " ", "T", "h", "i", "s", " ", "B",
       "e", "e", "n", " ", "T", "e", "s", "t", "e", "d", "?", "\n", "\n", "<", "!", "-", "-",
       "-", " ", "P", "l", "e", "a", "s", "e", " ", "d", "e", "s", "c", "r", "i", "b", "e",
       " ", "i", "n", " ", "d", "e", "t", "a", "i", "l", " ", "h", "o", "w", " ", "y", "o",
       "u", " ", "t", "e", "s", "t", "e", "d", " ", "y", "o", "u", "r", " ", "c", "h", "a",
       "n", "g", "e", "s", ".", " ", "-", "-", ">", "\n", "<", "!", "-", "-", "-", " ", "I",
       "n", "c", "l", "u", "d", "e", " ", "d", "e", "t", "a", "i", "l", "s", " ", "o", "f",
       " ", "y", "o", "u", "r", " ", "t", "e", "s", "t", "i", "n", "g", " ", "e", "n", "v",
       "i", "r", "o", "n", "m", "e", "n", "t", ",", " ", "a", "n", "d", " ", "t", "h", "e",
       " ", "t", "e", "s", "t", "s", " ", "y", "o", "u", " ", "r", "a", "n", " ", "t", "o",
       " ", "-", "-", ">", "\n", "<", "!", "-", "-", "-", " ", "s", "e", "e", " ", "h", "o",
       "w", " ", "y", "o", "u", "r", " ", "c", "h", "a", "n", "g", "e", " ", "a", "f", "f",
       "e", "c", "t", "s", " ", "o", "t", "h", "e", "r", " ", "a", "r", "e", "a", "s", " ",
       "o", "f", " ", "t", "h", "e", " ", "c", "o", "d", "e", ",", " ", "e", "t", "c", ".",
       " ", "-", "-", ">" >>

depends_on_section ==
    << "#", "#", " ", "D", "e", "p", "e", "n", "d", "s", " ", "O", "n", "\n", "\n", "<", "!",
       "-", "-", "-", " ", "D", "o", "e", "s", " ", "t", "h", "i", "s", " ", "P", "R", " ",
       "d", "e", "p", "e", "n", "d", " ", "o", "n", " ", "a", "n", "o", "t", "h", "e", "r",
       " ", "P", "R", " ", "t", "h", "a", "t", " ", "s", "h", "o", "u", "l", "d", " ", "b",
       "e", " ", "m", "e", "r", "g", "e", "d", " ", "f", "i", "r", "s", "t", " ", "o", "r",
       " ", "a", "t", " ", "t", "h", "e", " ", "s", "a", "m", "e", " ", "t", "i", "m", "e",
       " ", "-", "-", ">" >>

\* (the character ` cannot be written in a TLA+ string: "backtick" stands for it)
tests_section ==
    << "#", "#", " ", "T", "e", "s", "t", "s", " ", "i", "n", "c", "l", "u", "d", "e", "d",
       "/", "D", "o", "c", "s", " ", "U", "p", "d", "a", "t", "e", "d", "?", "\n", "\n", "<",
       "!", "-", "-", "-", " ", "G", "o", " ", "o", "v", "e", "r", " ", "a", "l", "l", " ",
       "t", "h", "e", " ", "f", "o", "l", "l", "o", "w", "i", "n", "g", " ", "p", "o", "i",
       "n", "t", "s", ",", " ", "a", "n", "d", " ", "p", "u", "t", " ", "a", "n", " ",
       "backtick", "x", "backtick", " ", "i", "n", " ", "a", "l", "l", " ", "t", "h", "e", " ",
       "b", "o", "x", "e", "s", " ", "t", "h", "a", "t", " ", "a", "p", "p", "l", "y", ".",
       " ", "-", "-", ">", "\n", "\n", "-", " ", "[", " ", "]", " ", "I", " ", "h", "a", "v",
       "e", " ", "a", "d", "d", "e", "d", " ", "t", "e", "s", "t", "s", " ", "t", "o", " ",
       "c", "o", "v", "e", "r", " ", "m", "y", " ", "c", "h", "a", "n", "g", "e", "s", ".",
       "\n", "-", " ", "[", " ", "]", " ", "A", "l", "l", " ", "r", "e", "l", "e", "v", "a",
       "n", "t", " ", "d", "o", "c", " ", "h", "a", "s", " ", "b", "e", "e", "n", " ", "u",
       "p", "d", "a", "t", "e", "d" >>

redundant_prefix ==
    << "T", "h", "i", "s", " ", "p", "u", "l", "l", " ", "r", "e", "q", "u", "e", "s", "t", " " >>

package_lock ==
    << "p", "a", "c", "k", "a", "g", "e", "-", "l", "o", "c", "k", ".", "j", "s", "o", "n" >>

changes_in_file ==
    << "\n", "C", "h", "a", "n", "g", "e", "s", " ", "i", "n", " ", "f", "i", "l", "e", " " >>

colon_space ==
    << ":", " " >>

newline ==
    << "\n" >>

blank_line ==
    << "\n", "\n" >>

comma == ","

codex ==
    << "c", "o", "d", "e", "x" >>

gpt_5 ==
    << "g", "p", "t", "-", "5" >>

unsupported_parameter ==
    << "U", "n", "s", "u", "p", "p", "o", "r", "t", "e", "d", " ", "p", "a", "r", "a", "m", "e", "t", "e", "r" >>

temperature_word ==
    << "t", "e", "m", "p", "e", "r", "a", "t", "u", "r", "e" >>

fixes_jira_issue_heading ==
    << "#", "#", " ", "F", "i", "x", "e", "s", " ", "J", "i", "r", "a", " ", "I", "s", "s", "u", "e", "\n", "\n", "[" >>

browse ==
    << "/", "b", "r", "o", "w", "s", "e", "/" >>

link_middle ==
    << "]", "(" >>

link_end ==
    << ")" >>

default_model ==
    << "g", "p", "t", "-", "4", ".", "1", "-", "n", "a", "n", "o" >>

model_gpt_5_mini ==
    << "g", "p", "t", "-", "5", "-", "m", "i", "n", "i" >>

model_GPT_5_2_Codex ==
    << "G", "P", "T", "-", "5", ".", "2", "-", "C", "o", "d", "e", "x" >>

model_o4_Codex ==
    << "o", "4", "-", "C", "o", "d", "e", "x" >>

model_GPT_4o ==
    << "G", "P", "T", "-", "4", "o" >>

model_my_gpt_5 ==
    << "m", "y", "-", "g", "p", "t", "-", "5" >>

users_alice ==
    << "a", "l", "i", "c", "e" >>

users_alice_bob ==
    << "a", "l", "i", "c", "e", ",", "b", "o", "b" >>

users_alice_space_bob ==
    << "a", "l", "i", "c", "e", ",", " ", "b", "o", "b" >>

alice ==
    << "a", "l", "i", "c", "e" >>

bob ==
    << "b", "o", "b" >>

title_fix_typo ==
    << "F", "i", "x", " ", "t", "y", "p", "o" >>

body_existing ==
    << "E", "x", "i", "s", "t", "i", "n", "g", " ", "t", "e", "x", "t" >>

a_py ==
    << "a", ".", "p", "y" >>

img_png ==
    << "i", "m", "g", ".", "p", "n", "g" >>

b_ts ==
    << "b", ".", "t", "s" >>

small_patch ==
    << "+", "x" >>

jira_url ==
    << "h", "t", "t", "p", "s", ":", "/", "/", "j", ".", "i", "o" >>

jira_key ==
    << "A", "B", "-", "1" >>

jira_token ==
    << "t", "o", "k" >>

paragraph ==
    << "p", "a", "r", "a", "g", "r", "a", "p", "h" >>

heading ==
    << "h", "e", "a", "d", "i", "n", "g" >>

text_type ==
    << "t", "e", "x", "t" >>

hard_break ==
    << "h", "a", "r", "d", "B", "r", "e", "a", "k" >>

fix_word ==
    << "F", "i", "x" >>

login_word ==
    << "l", "o", "g", "i", "n" >>

flat_description ==
    << " ", " ", "F", "i", "x", " ", "l", "o", "g", "i", "n", " ", "\n" >>

error_temperature ==
    << "U", "n", "s", "u", "p", "p", "o", "r", "t", "e", "d", " ", "p", "a", "r", "a", "m", "e", "t", "e", "r", ":", " ", "'", "t", "e", "m", "p", "e", "r", "a", "t", "u", "r", "e", "'" >>

error_top_p ==
    << "U", "n", "s", "u", "p", "p", "o", "r", "t", "e", "d", " ", "p", "a", "r", "a", "m", "e", "t", "e", "r", ":", " ", "'", "t", "o", "p", "_", "p", "'" >>

error_temperature_range ==
    << "I", "n", "v", "a", "l", "i", "d", " ", "t", "e", "m", "p", "e", "r", "a", "t", "u", "r", "e" >>

error_rate_limit ==
    << "R", "a", "t", "e", " ", "l", "i", "m", "i", "t" >>

output_fixes_a_bug ==
    << "T", "h", "i", "s", " ", "p", "u", "l", "l", " ", "r", "e", "q", "u", "e", "s", "t", " ", "f", "i", "x", "e", "s", " ", "a", " ", "b", "u", "g", "." >>

output_adds_x ==
    << " ", "A", "d", "d", "s", " ", "x", ".", "\n" >>

frag_this_lower ==
    << "t", "h", "i", "s", " ", "p", "u", "l", "l", " ", "r", "e", "q", "u", "e", "s", "t", " " >>

frag_this ==
    << "T", "h", "i", "s", " " >>

frag_fixes ==
    << "f", "i", "x", "e", "s", " ", "a", " ", "b", "u", "g", "." >>

frag_space ==
    << " " >>

\* ------------------------------------------------------------------------
\* Program constants

\* requests.codes.ok
codes_ok == 200
\* per_page of the changed-files request
per_page == 30
\* the last page of range(1, 11)
last_page == 10
max_allowed_tokens == 2048
characters_per_token == 4
max_allowed_characters == max_allowed_tokens * characters_per_token

\* ------------------------------------------------------------------------
\* Pure functions of the source

\* allowed_users.split(",") if allowed_users else []
parse_allowed_users(env) == IF env # << >> THEN split(env, comma) ELSE << >>

\* mutant: the login is looked for inside the entries (a substring test)
author_allowed_by_substring(allowed_users, pr_author) ==
    \/ allowed_users = << >>
    \/ \E i \in 1..Len(allowed_users) : contains(allowed_users[i], pr_author)

\* the gate on the author: an empty list allows everybody
author_allowed(allowed_users, pr_author) ==
    allowed_users = << >> \/ pr_author \in Range(allowed_users)

\* mutant: the body is read under a key the response does not have
body_present_wrong_key(body) == FALSE

\* truthiness of pull_request_data.get("body"): None and "" are false
body_present(body) == body.present /\ body.text # << >>

\* mutant: only client errors count as failures
status_failed_client_errors_only(status_code) == status_code >= 400 /\ status_code < 500

\* status_code != requests.codes.ok
status_failed(status_code) == status_code # codes_ok

\* mutant: range(1, 12)
page_range_one_more == 1..(last_page + 1)

\* the pages range(1, 11) of the pagination loop
page_range == 1..last_page

\* the text parts of one paragraph block, each followed by a space
RECURSIVE paragraph_text(_)
paragraph_text(parts) ==
    IF parts = << >> THEN << >>
    ELSE LET part == Head(parts)
         IN  (IF part.type = text_type THEN part.text \o << " " >> ELSE << >>)
             \o paragraph_text(Tail(parts))

\* the text of the paragraph blocks of a document, other blocks skipped
RECURSIVE document_text(_)
document_text(blocks) ==
    IF blocks = << >> THEN << >>
    ELSE LET block == Head(blocks)
         IN  (IF block.type # paragraph THEN << >> ELSE paragraph_text(block.content))
             \o document_text(Tail(blocks))

_extract_jira_description(issue_data) ==
    LET raw_description == issue_data.description
    IN  CASE raw_description.kind = "str" -> strip(raw_description.text)
          [] raw_description.kind = "dict" -> strip(document_text(raw_description.content))
          [] OTHER -> << >>

\* not jira_base_url or not jira_issue_key or not jira_api_token
jira_unconfigured(jira_base_url, jira_issue_key, jira_api_token) ==
    jira_base_url = << >> \/ jira_issue_key = << >> \/ jira_api_token = << >>

\* mutant: only server errors count as failures
jira_status_failed_server_errors_only(status_code) == status_code >= 500

\* response.status_code != 200
jira_status_failed(status_code) == status_code # 200

\* the line a file adds to the prompt; nothing for a file without a patch or
\* with an excluded name
file_line(pull_request_file) ==
    IF ~pull_request_file.has_patch THEN << >>
    ELSE IF pull_request_file.filename \in {package_lock} THEN << >>
    ELSE changes_in_file \o pull_request_file.filename \o colon_space
         \o pull_request_file.patch \o newline

\* the prompt before truncation
assembled_prompt(pull_request_title, task_description, pull_request_files) ==
    LET lines[k \in 0..Len(pull_request_files)] ==
            IF k = 0
            THEN prompt_head \o task_description \o prompt_mid
                 \o pull_request_title \o prompt_tail
            ELSE lines[k - 1] \o file_line(pull_request_files[k])
    IN  lines[Len(pull_request_files)]

\* mutant: the cut is made at the token count, not the character count
truncate_at_token_count(prompt) ==
    IF Len(prompt) > max_allowed_characters
    THEN take(prompt, max_allowed_tokens)
    ELSE prompt

\* if len(prompt) > max_allowed_characters: prompt = prompt[:max_allowed_characters]
truncate(prompt) ==
    IF Len(prompt) > max_allowed_characters
    THEN take(prompt, max_allowed_characters)
    ELSE prompt

_build_prompt(pull_request_title, task_description, pull_request_files) ==
    truncate(assembled_prompt(pull_request_title, task_description, pull_request_files))

\* mutant: the identifier is matched without lower()
should_send_temperature_case_sensitive(open_ai_model) ==
    ~(contains(open_ai_model, codex) \/ startswith(open_ai_model, gpt_5))

should_send_temperature(open_ai_model) ==
    LET model_name_lower == lower(open_ai_model)
    IN  ~(contains(model_name_lower, codex) \/ startswith(model_name_lower, gpt_5))

\* the request payload: the model and, when accepted, the temperature
build_payload(open_ai_model, model_temperature) ==
    IF should_send_temperature(open_ai_model)
    THEN [model |-> open_ai_model, has_temperature |-> TRUE,
          temperature |-> model_temperature]
    ELSE [model |-> open_ai_model, has_temperature |-> FALSE, temperature |-> "absent"]

\* mutant: any message that mentions temperature counts as the rejection
unsupported_temperature_any_mention(error_message) ==
    contains(error_message, temperature_word)

unsupported_temperature(error_message) ==
    contains(error_message, unsupported_parameter)
    /\ contains(error_message, temperature_word)

\* unsupported_temperature and "temperature" in request_payload
should_retry(error_message, request_payload) ==
    unsupported_temperature(error_message) /\ request_payload.has_temperature

\* del request_payload["temperature"]
without_temperature(request_payload) ==
    [request_payload EXCEPT !.has_temperature = FALSE, !.temperature = "absent"]

\* (openai_response.output_text or "").strip()
output_text_of(openai_response) ==
    strip(IF openai_response.present THEN openai_response.output_text ELSE << >>)

\* mutant: the prefix's length is cut off without the startswith test
strip_redundant_prefix_unguarded(generated_pr_description) ==
    LET rest == drop(generated_pr_description, Len(redundant_prefix))
    IN  IF rest # << >> THEN << upper_char(rest[1]) >> \o drop(rest, 1) ELSE rest

\* the redundant prefix cut off and the new first character in upper case
strip_redundant_prefix(generated_pr_description) ==
    IF startswith(generated_pr_description, redundant_prefix)
    THEN LET rest == drop(generated_pr_description, Len(redundant_prefix))
         IN  IF rest # << >> THEN << upper_char(rest[1]) >> \o drop(rest, 1) ELSE rest
    ELSE generated_pr_description

fixes_jira_issue_section(jira_base_url, jira_issue_key) ==
    fixes_jira_issue_heading \o jira_base_url \o browse \o jira_issue_key
    \o link_middle \o jira_base_url \o browse \o jira_issue_key \o link_end

\* the description with the four sections appended
with_sections(generated_pr_description, jira_base_url, jira_issue_key) ==
    generated_pr_description \o blank_line
    \o how_has_this_been_tested_section \o blank_line
    \o fixes_jira_issue_section(jira_base_url, jira_issue_key) \o blank_line
    \o depends_on_section \o blank_line
    \o tests_section

\* lines 339-373: the body written back for a completion response
final_description(openai_response, jira_base_url, jira_issue_key) ==
    with_sections(strip_redundant_prefix(output_text_of(openai_response)),
                  jira_base_url, jira_issue_key)

\* ------------------------------------------------------------------------
\* The hosting API's changed-files listing

\* entry i of the listing of the given kind: names cycle through a source
\* file, the excluded lock file, a binary file (no patch) and another source
\* file; the first entry of a "large" listing carries a large patch
ApiFile(i, kind) ==
    LET filename == CASE i % 4 = 1 -> a_py
                      [] i % 4 = 2 -> package_lock
                      [] i % 4 = 3 -> img_png
                      [] OTHER -> b_ts
        has_patch == (i % 4 # 3)
        patch == IF ~has_patch THEN << >>
                 ELSE IF kind = "large" /\ i = 1
                 THEN [j \in 1..LargePatchLen |-> IF j % 2 = 1 THEN "+" ELSE "-"]
                 ELSE small_patch
    IN  [sha |-> i, filename |-> filename, has_patch |-> has_patch, patch |-> patch]

\* what GET .../files?page={page}&per_page=30 returns for a listing of n files
files_page(n, kind, page) ==
    LET first == (page - 1) * per_page
        count == IF n - first < 0 THEN 0 ELSE Min(per_page, n - first)
    IN  [j \in 1..count |-> ApiFile(first + j, kind)]

\* ------------------------------------------------------------------------
\* Inputs and environment outcomes

NoBody == [present |-> FALSE, text |-> << >>]
EmptyBody == [present |-> TRUE, text |-> << >>]
ExistingBody == [present |-> TRUE, text |-> body_existing]

AllowedUsersInputs == {<< >>, users_alice, users_alice_bob, users_alice_space_bob}
Logins == {alice, bob}
Bodies == {NoBody, EmptyBody, ExistingBody}
Models == {default_model, model_gpt_5_mini, model_GPT_5_2_Codex, model_o4_Codex,
           model_GPT_4o, model_my_gpt_5}
Temperatures == {"0.6", "1.0"}
JiraConfigs ==
    {[base_url |-> u, issue_key |-> k, api_token |-> t] :
        u \in {<< >>, jira_url}, k \in {<< >>, jira_key}, t \in {<< >>, jira_token}}
FileCounts ==
    {0, 1, per_page - 1, per_page, per_page + 1, 2 * per_page, 5 * per_page + 1,
     per_page * last_page - 1, per_page * last_page, per_page * last_page + 1,
     per_page * last_page + MaxExtraFiles}
Listings == {[n |-> n, kind |-> k] : n \in FileCounts, k \in {"small", "large"}}

\* an HTTP exchange: the transport raised, or a status and a body that parses or not
HttpOutcomes ==
    {[raised |-> TRUE, status_code |-> 0, json |-> FALSE]}
    \cup {[raised |-> FALSE, status_code |-> s, json |-> j] :
            s \in {200, 204, 404, 500}, j \in BOOLEAN}

\* issue documents: no description, a flat string, a structured document
JiraIssues ==
    {[description |-> [kind |-> "none", text |-> << >>, content |-> << >>]],
     [description |-> [kind |-> "str", text |-> flat_description, content |-> << >>]],
     [description |-> [kind |-> "dict", text |-> << >>, content |->
        << [type |-> heading, content |-> << [type |-> text_type, text |-> login_word] >>],
           [type |-> paragraph, content |->
              << [type |-> text_type, text |-> fix_word],
                 [type |-> hard_break, text |-> << >>],
                 [type |-> text_type, text |-> login_word] >>] >>]]}

\* completion outcomes: a response (output_text may be None) or an exception
CompletionResponses ==
    {[present |-> FALSE, output_text |-> << >>],
     [present |-> TRUE, output_text |-> output_fixes_a_bug],
     [present |-> TRUE, output_text |-> output_adds_x]}
ErrorMessages ==
    {error_temperature, error_top_p, error_temperature_range, error_rate_limit}

\* ------------------------------------------------------------------------
\* State

VARIABLES
    allowed_users_env,    \* INPUT_ALLOWED_USERS
    open_ai_model,        \* INPUT_OPENAI_MODEL
    model_temperature,    \* INPUT_TEMPERATURE
    jira,                 \* --jira-base-url, --jira-issue-key, --jira-api-token
    pr,                   \* the pull request on the hosting platform
    listing,              \* its changed files on the hosting platform
    pc,                   \* the position of main()
    pull_request_data,
    pull_request_files,
    page_num,
    task_description,
    completion_prompt,
    request_payload,
    generated_pr_description,
    exit_status,          \* the process's exit status, -1 while it runs
    calls,                \* the outbound calls so far, in order, with their outcomes
    generated_text,       \* StripSpec: the stripped output text of line 339
    stripped_once,        \* StripSpec: the prefix rule applied to it
    stripped_twice,       \* StripSpec: the prefix rule applied to that result
    applications          \* StripSpec: how often the rule has been applied

input_vars == << allowed_users_env, open_ai_model, model_temperature, jira, pr, listing >>
main_vars == << pc, pull_request_data, pull_request_files, page_num, task_description,
                completion_prompt, request_payload, generated_pr_description,
                exit_status, calls >>
strip_vars == << generated_text, stripped_once, stripped_twice, applications >>
vars == << input_vars, main_vars, strip_vars >>

NoData == [parsed |-> FALSE, title |-> << >>, body |-> NoBody, login |-> << >>]
NoPayload == [model |-> << >>, has_temperature |-> FALSE, temperature |-> "absent"]
NoResponse == [present |-> FALSE, output_text |-> << >>]

\* an HTTP call and its outcome
HttpCall(kind, page, r) ==
    [kind |-> kind, page |-> page, has_temperature |-> FALSE, temperature |-> "absent",
     raised |-> r.raised, status_code |-> r.status_code, json |-> r.json,
     error |-> << >>, response |-> NoResponse]

\* a completion request that returned a response
CompletionCall(payload, openai_response) ==
    [kind |-> "create_response", page |-> 0,
     has_temperature |-> payload.has_temperature, temperature |-> payload.temperature,
     raised |-> FALSE, status_code |-> 200, json |-> TRUE,
     error |-> << >>, response |-> openai_response]

\* a completion request that raised
FailedCompletionCall(payload, error_message) ==
    [kind |-> "create_response", page |-> 0,
     has_temperature |-> payload.has_temperature, temperature |-> payload.temperature,
     raised |-> TRUE, status_code |-> 0, json |-> FALSE,
     error |-> error_message, response |-> NoResponse]

\* main() before its first outbound call, lines 197-222
InitMain ==
    /\ pc = "fetch_pull_request"
    /\ pull_request_data = NoData
    /\ pull_request_files = << >>
    /\ page_num = 1
    /\ task_description = << >>
    /\ completion_prompt = << >>
    /\ request_payload = NoPayload
    /\ generated_pr_description = << >>
    /\ exit_status = -1
    /\ calls = << >>

InitStripIdle ==
    /\ generated_text = << >>
    /\ stripped_once = << >>
    /\ stripped_twice = << >>
    /\ applications = 0

\* The inputs of a run.  Each family varies one group of inputs over its whole
\* set and keeps the others at the defaults: the gates read the allow-list and
\* the pull request, the completion stage the model and the temperature, the
\* issue stage the issue-tracker arguments, the pagination the listing.
DefaultInputs ==
    [allowed_users_env |-> << >>, open_ai_model |-> default_model,
     model_temperature |-> "0.6",
     jira |-> [base_url |-> jira_url, issue_key |-> jira_key, api_token |-> jira_token],
     pr |-> [title |-> title_fix_typo, body |-> NoBody, login |-> alice],
     listing |-> [n |-> 1, kind |-> "small"]]

GateInputs ==
    {[DefaultInputs EXCEPT !.allowed_users_env = a, !.pr.body = b, !.pr.login = l] :
        a \in AllowedUsersInputs, b \in Bodies, l \in Logins}

CompletionInputs ==
    {[DefaultInputs EXCEPT !.open_ai_model = m, !.model_temperature = t,
                           !.jira.api_token = k] :
        m \in Models, t \in Temperatures, k \in {<< >>, jira_token}}

JiraInputs == {[DefaultInputs EXCEPT !.jira = j] : j \in JiraConfigs}

FilesInputs ==
    {[DefaultInputs EXCEPT !.listing = l, !.jira.api_token = t] :
        l \in Listings, t \in {<< >>, jira_token}}

Inputs == GateInputs \cup CompletionInputs \cup JiraInputs \cup FilesInputs

Init ==
    /\ \E input \in Inputs :
        /\ allowed_users_env = input.allowed_users_env
        /\ open_ai_model = input.open_ai_model
        /\ model_temperature = input.model_temperature
        /\ jira = input.jira
        /\ pr = input.pr
        /\ listing = input.listing
    /\ InitMain
    /\ InitStripIdle

\* return <code>, or an uncaught exception (status 1): the process ends
Exit(code) ==
    /\ pc' = "done"
    /\ exit_status' = code

\* mutant: the page replaces the list
extend_replacing(files, pull_files_chunk) == pull_files_chunk

\* pull_request_files.extend(pull_files_chunk)
extend(files, pull_files_chunk) == files \o pull_files_chunk

\* lines 222-247
FetchPullRequest ==
    /\ pc = "fetch_pull_request"
    /\ \E r \in HttpOutcomes :
        /\ calls' = Append(calls, HttpCall("get_pull_request", 0, r))
        /\ IF r.raised \/ status_failed(r.status_code) \/ ~r.json
           THEN /\ Exit(1)
                /\ UNCHANGED pull_request_data
           ELSE /\ pull_request_data' =
                      [parsed |-> TRUE, title |-> pr.title, body |-> pr.body,
                       login |-> pr.login]
                /\ IF body_present(pr.body)
                   THEN Exit(0)
                   ELSE IF ~author_allowed(parse_allowed_users(allowed_users_env), pr.login)
                   THEN Exit(0)
                   ELSE /\ pc' = "fetch_files"
                        /\ UNCHANGED exit_status
    /\ UNCHANGED << input_vars, strip_vars, pull_request_files, page_num,
                    task_description, completion_prompt, request_payload,
                    generated_pr_description >>

\* one iteration of the loop of lines 250-269
FetchFilesPage ==
    /\ pc = "fetch_files"
    /\ page_num \in page_range
    /\ \E r \in HttpOutcomes :
        /\ calls' = Append(calls, HttpCall("get_files", page_num, r))
        /\ IF r.raised \/ status_failed(r.status_code) \/ ~r.json
           THEN /\ Exit(1)
                /\ UNCHANGED << pull_request_files, page_num >>
           ELSE LET pull_files_chunk == files_page(listing.n, listing.kind, page_num)
                IN  IF Len(pull_files_chunk) = 0
                    THEN /\ pc' = "fetch_jira"
                         /\ UNCHANGED << pull_request_files, page_num, exit_status >>
                    ELSE /\ pull_request_files' = extend(pull_request_files, pull_files_chunk)
                         /\ page_num' = page_num + 1
                         /\ pc' = IF page_num + 1 \in page_range
                                  THEN "fetch_files" ELSE "fetch_jira"
                         /\ UNCHANGED exit_status
    /\ UNCHANGED << input_vars, strip_vars, pull_request_data, task_description,
                    completion_prompt, request_payload, generated_pr_description >>

\* lines 271-312: the issue description, the prompt and the request payload
FetchJiraDescription ==
    /\ pc = "fetch_jira"
    /\ IF jira_unconfigured(jira.base_url, jira.issue_key, jira.api_token)
       THEN /\ task_description' = << >>
            /\ UNCHANGED calls
       ELSE \E r \in HttpOutcomes, issue_data \in JiraIssues :
            /\ calls' = Append(calls, HttpCall("get_jira_issue", 0, r))
            /\ task_description' =
                   IF r.raised \/ jira_status_failed(r.status_code) \/ ~r.json
                   THEN << >>
                   ELSE _extract_jira_description(issue_data)
    /\ completion_prompt' =
           _build_prompt(pull_request_data.title, task_description', pull_request_files)
    /\ request_payload' = build_payload(open_ai_model, model_temperature)
    /\ pc' = "create_response"
    /\ UNCHANGED << input_vars, strip_vars, pull_request_data, pull_request_files,
                    page_num, generated_pr_description, exit_status >>

\* lines 314-327, 335-373: the first completion request
CreateResponse ==
    /\ pc = "create_response"
    /\ \/ \E openai_response \in CompletionResponses :
            /\ calls' = Append(calls, CompletionCall(request_payload, openai_response))
            /\ generated_pr_description' =
                   final_description(openai_response, jira.base_url, jira.issue_key)
            /\ pc' = "update_description"
            /\ UNCHANGED << request_payload, exit_status >>
       \/ \E error_message \in ErrorMessages :
            /\ calls' = Append(calls, FailedCompletionCall(request_payload, error_message))
            /\ IF should_retry(error_message, request_payload)
               THEN /\ request_payload' = without_temperature(request_payload)
                    /\ pc' = "retry_response"
                    /\ UNCHANGED << generated_pr_description, exit_status >>
               ELSE /\ Exit(1)
                    /\ UNCHANGED << request_payload, generated_pr_description >>
    /\ UNCHANGED << input_vars, strip_vars, pull_request_data, pull_request_files,
                    page_num, task_description, completion_prompt >>

\* lines 328-334, 339-373: the retry without temperature
RetryResponse ==
    /\ pc = "retry_response"
    /\ \/ \E openai_response \in CompletionResponses :
            /\ calls' = Append(calls, CompletionCall(request_payload, openai_response))
            /\ generated_pr_description' =
                   final_description(openai_response, jira.base_url, jira.issue_key)
            /\ pc' = "update_description"
            /\ UNCHANGED exit_status
       \/ \E retry_error \in ErrorMessages :
            /\ calls' = Append(calls, FailedCompletionCall(request_payload, retry_error))
            /\ Exit(1)
            /\ UNCHANGED generated_pr_description
    /\ UNCHANGED << input_vars, strip_vars, pull_request_data, pull_request_files,
                    page_num, task_description, completion_prompt, request_payload >>

\* lines 377-393: the write-back
UpdateDescription ==
    /\ pc = "update_description"
    /\ \E r \in HttpOutcomes :
        /\ calls' = Append(calls, HttpCall("patch_description", 0, r))
        /\ IF r.raised \/ status_failed(r.status_code)
           THEN Exit(1)
           ELSE Exit(0)
    /\ UNCHANGED << input_vars, strip_vars, pull_request_data, pull_request_files,
                    page_num, task_description, completion_prompt, request_payload,
                    generated_pr_description >>

Next ==
    \/ FetchPullRequest
    \/ FetchFilesPage
    \/ FetchJiraDescription
    \/ CreateResponse
    \/ RetryResponse
    \/ UpdateDescription

Spec == Init /\ [][Next]_vars

\* ------------------------------------------------------------------------
\* The prefix rule of lines 341-347 applied to its own result

Fragments == {redundant_prefix, frag_this_lower, frag_this, frag_fixes, frag_space}

\* the texts put together from at most k fragments
RECURSIVE Texts(_)
Texts(k) ==
    IF k = 0 THEN {<< >>}
    ELSE Texts(k - 1) \cup {t \o f : t \in Texts(k - 1), f \in Fragments}

StripInit ==
    /\ allowed_users_env = DefaultInputs.allowed_users_env
    /\ open_ai_model = DefaultInputs.open_ai_model
    /\ model_temperature = DefaultInputs.model_temperature
    /\ jira = DefaultInputs.jira
    /\ pr = DefaultInputs.pr
    /\ listing = DefaultInputs.listing
    /\ InitMain
    /\ \E output_text \in Texts(MaxFragments) :
           generated_text = output_text_of([present |-> TRUE, output_text |-> output_text])
    /\ stripped_once = << >>
    /\ stripped_twice = << >>
    /\ applications = 0

ApplyPrefixRule ==
    /\ applications = 0
    /\ stripped_once' = strip_redundant_prefix(generated_text)
    /\ applications' = 1
    /\ UNCHANGED << input_vars, main_vars, generated_text, stripped_twice >>

ApplyPrefixRuleAgain ==
    /\ applications = 1
    /\ stripped_twice' = strip_redundant_prefix(stripped_once)
    /\ applications' = 2
    /\ UNCHANGED << input_vars, main_vars, generated_text, stripped_once >>

StripNext == ApplyPrefixRule \/ ApplyPrefixRuleAgain

StripSpec == StripInit /\ [][StripNext]_vars

\* ------------------------------------------------------------------------
\* Properties

\* the positions in the call log of the calls of a kind
CallsOf(kind) == {i \in 1..Len(calls) : calls[i].kind = kind}

\* the pull-request fetch succeeded and returned a non-empty body
ExistingBodyReturned ==
    /\ pull_request_data.parsed
    /\ pull_request_data.body.present
    /\ pull_request_data.body.text # << >>

\* C1: in every run in which the pull-request fetch succeeds and returns a
\* non-empty existing body, no write-back is issued and the run has ended with
\* exit status 0, whatever the allow-list and the other inputs are.
C1_ExistingBodyIsNoOp ==
    ExistingBodyReturned =>
        /\ CallsOf("patch_description") = {}
        /\ pc = "done"
        /\ exit_status = 0

C1_Witness ==
    /\ ExistingBodyReturned
    /\ allowed_users_env # << >>
    /\ pc = "done"
    /\ exit_status = 0

\* an allow-list is configured and non-empty and the author is not a member
AuthorExcluded ==
    LET allow_list == parse_allowed_users(allowed_users_env)
    IN  allow_list # << >> /\ \A i \in 1..Len(allow_list) : allow_list[i] # pr.login

NoCallsPastGate ==
    /\ CallsOf("get_files") = {}
    /\ CallsOf("create_response") = {}
    /\ CallsOf("patch_description") = {}

FetchFailed(c) ==
    /\ c.kind \in {"get_pull_request", "get_files"}
    /\ (c.raised \/ c.status_code # 200 \/ ~c.json)

WriteBackFailed(c) ==
    /\ c.kind = "patch_description"
    /\ (c.raised \/ c.status_code # 200)

\* a failed completion request that no retry follows or will follow
CompletionUnrecovered(i) ==
    /\ calls[i].kind = "create_response"
    /\ calls[i].raised
    /\ pc # "retry_response"
    /\ \A j \in CallsOf("create_response") : j <= i

FatalAt(i) ==
    FetchFailed(calls[i]) \/ WriteBackFailed(calls[i]) \/ CompletionUnrecovered(i)

\* C3: every fatal condition ends the run with a nonzero exit status; the call
\* it occurred on is the last call of the run, and no write-back is in the log
\* unless the fatal condition is the write-back's own failure.
C3_FatalEndsNonzeroWithoutWriteBack ==
    \A i \in 1..Len(calls) :
        FatalAt(i) =>
            /\ pc = "done"
            /\ exit_status > 0
            /\ i = Len(calls)
            /\ CallsOf("patch_description")
                 \subseteq (IF calls[i].kind = "patch_description" THEN {i} ELSE {})

C3_Witness ==
    /\ pc = "done"
    /\ exit_status = 1
    /\ pull_request_files # << >>
    /\ \E i \in CallsOf("get_files") : calls[i].page = 2 /\ calls[i].status_code = 500

\* the pagination loop has ended without a failure
PaginationEnded ==
    \/ pc \in {"fetch_jira", "create_response", "retry_response", "update_description"}
    \/ CallsOf("create_response") # {}

\* C4: the collected files are the listing's entries in the API's order, pages
\* are requested from page 1 upward, never more than 300 entries are collected,
\* and when the loop has ended (first empty page, or after page 10) all N
\* entries of the listing are collected, or the first 300 when N exceeds 300.
C4_PaginationCollectsInOrder ==
    /\ Len(pull_request_files) <= 300
    /\ \A i \in 1..Len(pull_request_files) :
          pull_request_files[i] = ApiFile(i, listing.kind)
    /\ \A i \in CallsOf("get_files") : calls[i].page = i - 1
    /\ PaginationEnded =>
          /\ Len(pull_request_files) = Min(listing.n, 300)
          /\ Cardinality(CallsOf("get_files")) = Min(((listing.n + 29) \div 30) + 1, 10)

C4_Witness ==
    /\ pc = "fetch_jira"
    /\ listing.n > 300
    /\ Len(pull_request_files) = 300
    /\ pull_request_files[300].sha = 300

\* C5: a first completion request rejected for the unsupported temperature it
\* carried is retried once without temperature, and the retry's output is used;
\* any other failure of the first request, and a failure of the retry, ends the
\* run with status 1 and no further completion request.
C5_RetryOnceOnTemperatureRejection ==
    LET cs == CallsOf("create_response")
    IN  /\ Cardinality(cs) <= 2
        /\ \A i \in cs :
            LET first == \A j \in cs : i <= j
                rejected == /\ calls[i].raised
                            /\ calls[i].error = error_temperature
                            /\ calls[i].has_temperature
            IN  /\ (first /\ rejected) =>
                      \/ pc = "retry_response" /\ i = Len(calls)
                      \/ (i + 1) \in cs /\ ~calls[i + 1].has_temperature
                /\ (first /\ calls[i].raised /\ ~rejected) =>
                      pc = "done" /\ exit_status = 1 /\ i = Len(calls)
                /\ (first /\ ~calls[i].raised) => cs = {i}
                /\ (~first /\ calls[i].raised) =>
                      pc = "done" /\ exit_status = 1 /\ i = Len(calls)
                /\ (~first /\ ~calls[i].raised /\ pc = "update_description") =>
                      generated_pr_description =
                          final_description(calls[i].response, jira.base_url,
                                            jira.issue_key)

C5_Witness ==
    /\ pc = "update_description"
    /\ \E i \in CallsOf("create_response") :
          /\ calls[i].raised
          /\ calls[i].error = error_temperature
          /\ calls[i].has_temperature
          /\ (i + 1) \in CallsOf("create_response")
          /\ ~calls[i + 1].raised
          /\ calls[i + 1].response.output_text = output_fixes_a_bug

JiraFailed(c) ==
    /\ c.kind = "get_jira_issue"
    /\ (c.raised \/ c.status_code # 200 \/ ~c.json)

\* C6: with a missing base URL, issue key or token no issue-tracker request is
\* issued and the description is empty; at most one request is issued, and when
\* it fails (transport, status other than 200, unparseable body) the description
\* is empty and the run goes on to the prompt and the completion request.
C6_JiraFailureDegradesToEmpty ==
    /\ (jira.base_url = << >> \/ jira.issue_key = << >> \/ jira.api_token = << >>) =>
          CallsOf("get_jira_issue") = {} /\ task_description = << >>
    /\ Cardinality(CallsOf("get_jira_issue")) <= 1
    /\ \A i \in CallsOf("get_jira_issue") :
          JiraFailed(calls[i]) =>
              /\ task_description = << >>
              /\ i = Len(calls) =>
                    /\ pc = "create_response"
                    /\ exit_status = -1
                    /\ startswith(completion_prompt,
                                  prompt_head \o prompt_mid \o pull_request_data.title)

C6_Witness ==
    /\ pc = "create_response"
    /\ task_description = << >>
    /\ \E i \in CallsOf("get_jira_issue") :
          ~calls[i].raised /\ calls[i].status_code = 404 /\ calls[i].json

\* identifiers of the family that rejects temperature
IncompatibleModels == {model_gpt_5_mini, model_GPT_5_2_Codex, model_o4_Codex}

\* C7: for a model identifier of the incompatible family, in any letter case, no
\* completion request carries a temperature; for every other identifier the
\* first completion request carries the configured temperature.
C7_TemperatureGating ==
    LET cs == CallsOf("create_response")
    IN  /\ open_ai_model \in IncompatibleModels =>
              \A i \in cs : ~calls[i].has_temperature
        /\ open_ai_model \notin IncompatibleModels =>
              \A i \in cs :
                  (\A j \in cs : i <= j) =>
                      /\ calls[i].has_temperature
                      /\ calls[i].temperature = model_temperature

C7_Witness ==
    /\ open_ai_model = model_GPT_5_2_Codex
    /\ CallsOf("create_response") # {}

\* C8: for the token limit 2048 of _build_prompt the prompt never exceeds
\* 4 * 2048 characters; a longer assembled prompt is cut to exactly its first
\* 4 * 2048 characters, a shorter one is returned unchanged.
C8_PromptTruncation ==
    /\ Len(completion_prompt) <= 4 * 2048
    /\ pc = "create_response" =>
          LET assembled == assembled_prompt(pull_request_data.title, task_description,
                                            pull_request_files)
          IN  /\ Len(completion_prompt) = Min(Len(assembled), 4 * 2048)
              /\ \A i \in 1..Len(completion_prompt) : completion_prompt[i] = assembled[i]

C8_Witness ==
    /\ pc = "create_response"
    /\ Len(completion_prompt) = 4 * 2048
    /\ Len(assembled_prompt(pull_request_data.title, task_description,
                            pull_request_files)) > 4 * 2048

\* the text begins with the prefix twice, the second time in either case of
\* its first letter
DoublePrefixed(text) ==
    /\ Len(text) >= 2 * Len(redundant_prefix)
    /\ SubSeq(text, 1, Len(redundant_prefix)) = redundant_prefix
    /\ SubSeq(text, Len(redundant_prefix) + 1, 2 * Len(redundant_prefix))
          \in {redundant_prefix, frag_this_lower}

\* C9 as stated: applying the prefix rule to a string the rule has produced
\* leaves that string unchanged.
C9_PrefixRuleIdempotent ==
    applications = 2 => stripped_twice = stripped_once

\* C9 amended: applying the prefix rule to a string the rule has produced
\* leaves that string unchanged unless the generated text began with the
\* prefix twice over (the second time as "This pull request " or
\* "this pull request ").
C9_PrefixRuleIdempotentUnlessDoubled ==
    (applications = 2 /\ ~DoublePrefixed(generated_text)) =>
        stripped_twice = stripped_once

C9_Witness ==
    /\ applications = 2
    /\ ~DoublePrefixed(generated_text)
    /\ stripped_once # generated_text
    /\ stripped_twice = stripped_once

\* the stage of a call in the pipeline
Stage(kind) ==
    CASE kind = "get_pull_request" -> 1
      [] kind = "get_files" -> 2
      [] kind = "get_jira_issue" -> 3
      [] kind = "create_response" -> 4
      [] kind = "patch_description" -> 5

\* C10: the calls of a run are a prefix of: one pull-request fetch, 1 to 10
\* changed-files page fetches, at most one issue-tracker fetch (after the
\* pagination has ended), one or two completion requests, one write-back; the
\* stages never go back, and the write-back directly follows a completion
\* request that returned.
C10_LinearCallSequence ==
    /\ \A i \in 1..(Len(calls) - 1) : Stage(calls[i].kind) <= Stage(calls[i + 1].kind)
    /\ calls # << >> => calls[1].kind = "get_pull_request"
    /\ Cardinality(CallsOf("get_pull_request")) <= 1
    /\ Cardinality(CallsOf("get_files")) <= 10
    /\ Cardinality(CallsOf("get_jira_issue")) <= 1
    /\ Cardinality(CallsOf("create_response")) <= 2
    /\ Cardinality(CallsOf("patch_description")) <= 1
    /\ \A i \in 1..Len(calls) :
          Stage(calls[i].kind) > 2 => CallsOf("get_files") # {}
    /\ \A i \in CallsOf("get_jira_issue") :
          /\ calls[i - 1].kind = "get_files"
          /\ ~FetchFailed(calls[i - 1])
          /\ \/ calls[i - 1].page = 10
             \/ files_page(listing.n, listing.kind, calls[i - 1].page) = << >>
    /\ \A i \in CallsOf("patch_description") :
          calls[i - 1].kind = "create_response" /\ ~calls[i - 1].raised

C10_Witness ==
    /\ pc = "done"
    /\ exit_status = 0
    /\ Cardinality(CallsOf("get_files")) = 10
    /\ Cardinality(CallsOf("get_jira_issue")) = 1
    /\ Cardinality(CallsOf("create_response")) = 2
    /\ Cardinality(CallsOf("patch_description")) = 1

====
